---- MODULE Spec2Model ----
(***************************************************************************)
(* Generate / poll / materialize flow of the autoresum backend:            *)
(* resumes/{views,repositories,tasks,models}.py and the cover_letters      *)
(* siblings.  A generation request is enqueued on the task queue, a        *)
(* worker produces a result, and the poll endpoint turns the result into   *)
(* a created or updated record.                                            *)
(***************************************************************************)
EXTENDS Integers, Sequences, FiniteSets, TLC

\* ------------------------------------------------------------------ bounds
\* Polls of a handle are no longer explored once this many writes have been
\* applied from its result.
MaxMat == 2

\* Stripe event ids delivered to the webhook endpoint
Events == {"e1"}
\* webhook requests that can be in flight together
Deliveries == {"d1", "d2"}
\* cap on the completed handler runs counted per event id
MaxHandled == 2

Users == {"u1", "u2"}
Handles == {"h1"}
Pollers == {"p1", "p2"}
\* handles of the update requests explored for one record's counter
RegenHandles == {"h1", "h2", "h3"}
Kinds == {"resume", "cover_letter"}
Flows == {"create", "update"}

\* increment_resume_count is not explored beyond this counter value
MaxResumeCount == 5

\* ------------------------------------------------------- program constants
\* models.py: update_generate_content_count = PositiveIntegerField(default=1)
DefaultCount == 1
\* views.py: if resume.update_generate_content_count >= 3
FreeLimit == 3
\* subscriptions/models.py: return self.resume_count < 3
FreeResumes == 3

VARIABLES
    concurrent, \* requests are served by more than one server process
    eager,      \* settings.CELERY_TASK_ALWAYS_EAGER
    task,       \* handle -> arguments of the submitted task
    wpc,        \* handle -> position of the background task
    wread,      \* handle -> counter value the worker loaded with the record
    revoked,    \* handles for which a revoke request has been issued
    native,     \* handle -> task meta in the native result store
    cache,      \* handle -> entry of the result cache (django cache)
    records,    \* durable record store (Resume and CoverLetter rows)
    poll,       \* poller -> position and locals of a poll request in flight
    lastResp,   \* the HTTP response sent by the step just taken, if any
    mat,        \* handle -> writes applied to the record store from its result
    okResp,     \* handle -> success responses (200/201) returned by polls
    expired,    \* handles whose cache entry has timed out at least once
    createFailed, \* handles for which a materialization attempt has raised
    subscription, \* the SubscriptionPlan row of one user
    increments, \* increment_resume_count calls since the last reset
    events,     \* Stripe event id -> its WebhookEvent row
    hook,       \* delivery -> position and locals of a webhook request in flight
    handled     \* Stripe event id -> runs of its handler that completed

vars == <<concurrent, eager, task, wpc, wread, revoked, native, cache, records, poll,
          lastResp, mat, okResp, expired, createFailed, subscription, increments,
          events, hook, handled>>

\* the variables of the generate / poll / materialize flow
flowVars == <<concurrent, eager, task, wpc, wread, revoked, native, cache, records,
              poll, mat, okResp, expired, createFailed>>

\* the variables of the Stripe webhook endpoint
hookVars == <<events, hook, handled>>

\* ------------------------------------------------------------ data shapes
NoTask == [kind |-> "none", flow |-> "none", user |-> "none", rid |-> 0]

\* A generation result: src stands for original_content / parsed_content of
\* the task run of that handle, rid for the echoed record id (0: no id key).
NoResult == [src |-> "none", rid |-> 0]

Forgotten == [state |-> "PENDING", result |-> NoResult]

Miss == [hit |-> FALSE, body |-> NoResult]

IdlePoll == [pc |-> "idle", h |-> "none", user |-> "none", kind |-> "none",
             flow |-> "none", path |-> "none", data |-> NoResult, rec |-> 0,
             obs |-> "none", hadCache |-> FALSE, after |-> FALSE,
             late |-> FALSE, writes |-> 0]

NoResp == [op |-> "none", status |-> 0, msg |-> "none", h |-> "none",
           user |-> "none", flow |-> "none", path |-> "none", rec |-> 0,
           content |-> "none", state |-> "none", obs |-> "none",
           hadCache |-> FALSE, after |-> FALSE, late |-> FALSE,
           writes |-> 0, rid |-> 0, fault |-> "none", cleanup |-> "none",
           event |-> "none", ran |-> FALSE]

\* The rows present before any request of the explored run: one resume and
\* one cover letter of user u1, as left by earlier, retired handles.
InitRecords ==
    << [kind |-> "resume", owner |-> "u1", count |-> DefaultCount, content |-> "init"],
       [kind |-> "cover_letter", owner |-> "u1", count |-> DefaultCount, content |-> "init"] >>

\* subscriptions/models.py: SubscriptionPlan as created for a new user;
\* period stands for current_period_end compared with timezone.now()
\* ("none": the field is null)
NewPlan == [plan |-> "free", status |-> "active", period |-> "none", resume_count |-> 0,
            is_active |-> TRUE, stripe_subscription_id |-> "none"]

\* subscriptions/models.py: no WebhookEvent row with that stripe_event_id;
\* a row keeps the type and the object status of the event (event_type,
\* data), processed, and whether processing_error holds a text
NoEvent == [stored |-> FALSE, type |-> "none", status |-> "none",
            processed |-> FALSE, error |-> FALSE]

\* a webhook request: e is event["id"], and type, status, processed, error
\* are the fields of the webhook_event instance the request holds
IdleHook == [pc |-> "idle", e |-> "none", type |-> "none", status |-> "none",
             processed |-> FALSE, error |-> FALSE]

\* ------------------------------------------------------------ result cache
\* repositories.py save_task_result: cache.set(key, json.dumps(result), 600)
JsonDumps(r) == [hit |-> TRUE, body |-> r]

\* repositories.py get_task_result: json.loads(result) if result else None
JsonLoads(e) == IF e.hit THEN e.body ELSE NoResult

get_task_result(key) == JsonLoads(cache[key])

save_task_result(key, result) == [cache EXCEPT ![key] = JsonDumps(result)]

\* repositories.py delete_task: cache.delete(key)
delete_task(key) == [cache EXCEPT ![key] = Miss]

\* python truthiness of cached_data (None or a non-empty dict)
Truthy(d) == d.src # "none"

\* ------------------------------------------------------- native task store
\* the failure test comparing the state string without lower()
IsFailed_CaseSensitive(st) == st = "failure"

\* state.lower() == "failure" or AsyncResult.failed()
IsFailed(st) == st = "FAILURE"

\* celery AsyncResult.ready(): state in READY_STATES
IsReady(st) == st \in {"SUCCESS", "FAILURE", "REVOKED"}

\* the success test accepting every finished task
IsSuccess_AnyReady(st) == st \in {"SUCCESS", "REVOKED"}

\* AsyncResult.status.lower() == "success"
IsSuccess(st) == st = "SUCCESS"

\* AsyncResult.forget(): the task meta is removed, the id is unknown again
forget(h) == [native EXCEPT ![h] = Forgotten]

\* what the worker returns for handle h running task t (tasks.py): the
\* generator's original_content / parsed_content, and for update tasks the
\* echoed record id
ResultOf(h, t) ==
    [src |-> h, rid |-> IF t.flow = "update" THEN t.rid ELSE 0]

\* ------------------------------------------------------------ record store
RecordIds == 1..Len(records)

\* Resume.objects.get(id=.., user=..) / CoverLetter.objects.get(id=.., user=..)
OwnedBy(rid, kind, u) ==
    /\ rid \in RecordIds
    /\ records[rid].kind = kind
    /\ records[rid].owner = u

\* no HTTP request is between two of its steps
NoRequestInFlight == \A p \in Pollers : poll[p].pc = "idle"

\* a new HTTP request can be taken up
CanServe == concurrent \/ NoRequestInFlight

InitState ==
    /\ eager \in BOOLEAN
    /\ task = [h \in Handles |-> NoTask]
    /\ wpc = [h \in Handles |-> "none"]
    /\ wread = [h \in Handles |-> 0]
    /\ revoked = {}
    /\ native = [h \in Handles |-> Forgotten]
    /\ cache = [h \in Handles |-> Miss]
    /\ records = InitRecords
    /\ poll = [p \in Pollers |-> IdlePoll]
    /\ lastResp = NoResp
    /\ mat = [h \in Handles |-> 0]
    /\ okResp = [h \in Handles |-> 0]
    /\ expired = {}
    /\ createFailed = {}
    /\ subscription = NewPlan
    /\ increments = 0
    /\ events = [e \in Events |-> NoEvent]
    /\ hook = [d \in Deliveries |-> IdleHook]
    /\ handled = [e \in Events |-> 0]

\* one server process: a request is taken up when the previous one is answered
Init == InitState /\ concurrent = FALSE

\* several server processes: requests overlap
InitConc == InitState /\ concurrent = TRUE

\* ------------------------------------------------------------- submission
SubmitResp(st, m, h, u, fl) ==
    [NoResp EXCEPT !.op = "submit", !.status = st, !.msg = m, !.h = h,
                   !.user = u, !.flow = fl]

\* generate_resume_content / generate_cover_letter_content called eagerly:
\* the task body runs inside apply_async, nothing is written to the native
\* store, and only the resume repository saves the result in the cache.
EagerCache(h, t, genOk) ==
    IF t.kind = "resume" /\ genOk
    THEN save_task_result(h, ResultOf(h, t))
    ELSE cache

\* GenerateAIContentView.create / GenerateCoverLetterContentView.create
SubmitCreate(h, u, kind, genOk) ==
    LET t == [kind |-> kind, flow |-> "create", user |-> u, rid |-> 0] IN
    /\ CanServe
    /\ task[h] = NoTask
    /\ eager \/ genOk
    /\ task' = [task EXCEPT ![h] = t]
    /\ IF eager
       THEN /\ wpc' = [wpc EXCEPT ![h] = IF genOk THEN "success" ELSE "failure"]
            /\ cache' = EagerCache(h, t, genOk)
       ELSE /\ wpc' = [wpc EXCEPT ![h] = "queued"]
            /\ cache' = cache
    /\ lastResp' = SubmitResp(200, "task_id", h, u, "create")
    /\ UNCHANGED <<subscription, increments, events, hook, handled, concurrent, eager, wread, revoked, native, records, poll, mat, okResp,
                   expired, createFailed>>

\* the free-tier check of UpdateGenerateAIContentView.create
LimitReached(rid) == records[rid].count >= FreeLimit

\* UpdateGenerateAIContentView.create / UpdateGenerateAICoverLetterContentView.create,
\* request accepted
SubmitUpdate(h, u, kind, rid, genOk) ==
    LET t == [kind |-> kind, flow |-> "update", user |-> u, rid |-> rid] IN
    /\ CanServe
    /\ task[h] = NoTask
    /\ eager \/ genOk
    /\ OwnedBy(rid, kind, u)
    /\ ~LimitReached(rid)
    /\ task' = [task EXCEPT ![h] = t]
    /\ IF eager
       THEN /\ wpc' = [wpc EXCEPT ![h] = IF genOk THEN "success" ELSE "failure"]
            /\ wread' = [wread EXCEPT ![h] = records[rid].count]
            /\ records' = IF genOk
                          THEN [records EXCEPT ![rid].count = @ + 1]
                          ELSE records
            /\ cache' = EagerCache(h, t, genOk)
       ELSE /\ wpc' = [wpc EXCEPT ![h] = "queued"]
            /\ UNCHANGED <<wread, records, cache>>
    /\ lastResp' = SubmitResp(200, "task_id", h, u, "update")
    /\ UNCHANGED <<subscription, increments, events, hook, handled, concurrent, eager, revoked, native, poll, mat, okResp, expired,
                   createFailed>>

\* the same views, request rejected: record not owned by the requester, or
\* the regeneration counter has reached the free limit
SubmitUpdateRejected(u, kind, rid) ==
    /\ CanServe
    /\ rid \in RecordIds
    /\ records[rid].kind = kind
    /\ \/ /\ ~OwnedBy(rid, kind, u)
          /\ lastResp' = SubmitResp(IF kind = "resume" THEN 400 ELSE 404,
                                    "not_owned", "none", u, "update")
       \/ /\ OwnedBy(rid, kind, u)
          /\ LimitReached(rid)
          /\ lastResp' = SubmitResp(400, "free_limit", "none", u, "update")
    /\ UNCHANGED <<subscription, increments, events, hook, handled, concurrent, eager, task, wpc, wread, revoked, native, cache, records,
                   poll, mat, okResp, expired, createFailed>>

\* ------------------------------------------------------------ plain update
\* get_object of ResumeUpdateView / CoverLetterUpdateView looking the row up
\* by id alone
get_object_AnyOwner(rid, kind, u) ==
    rid \in RecordIds /\ records[rid].kind = kind

\* get_object of ResumeUpdateView / CoverLetterUpdateView:
\* objects.get(id=.., user=request.user), DoesNotExist raised as Http404
get_object(rid, kind, u) == OwnedBy(rid, kind, u)

\* ResumeUpdateView.update / CoverLetterUpdateView.update (PUT or PATCH
\* without AI generation): 404 for a row that is not the requester's, 400
\* for data the serializer rejects, else the fields are saved and 200
PlainUpdate(u, kind, rid, valid) ==
    /\ CanServe
    /\ records[rid].kind = kind
    /\ IF ~get_object(rid, kind, u)
       THEN /\ lastResp' = [NoResp EXCEPT !.op = "update", !.status = 404,
                                          !.msg = "not_found", !.user = u, !.rec = rid]
            /\ records' = records
       ELSE IF ~valid
       THEN /\ lastResp' = [NoResp EXCEPT !.op = "update", !.status = 400,
                                          !.msg = "invalid", !.user = u, !.rec = rid]
            /\ records' = records
       ELSE /\ lastResp' = [NoResp EXCEPT !.op = "update", !.status = 200,
                                          !.msg = "updated", !.user = u, !.rec = rid,
                                          !.content = "edited"]
            /\ records' = [records EXCEPT ![rid].content = "edited"]
    /\ UNCHANGED <<subscription, increments, events, hook, handled, concurrent, eager, task, wpc, wread, revoked, native, cache, poll,
                   mat, okResp, expired, createFailed>>

\* ------------------------------------------------------ background worker
\* tasks.py: User.objects.get(id=user_id) raises DoesNotExist, or the
\* record of an update task is not found for that user; found is FALSE
\* when the row was removed behind the application's back
TaskLookupFails(h, found) ==
    \/ ~found
    \/ task[h].flow = "update" /\ ~OwnedBy(task[h].rid, task[h].kind, task[h].user)

\* tasks.py, first half: the worker picks the task up (a revoked task is
\* discarded and marked REVOKED), looks up the user and, for an update
\* task, loads the target record with its counter.
WorkerStart(h, found) ==
    /\ wpc[h] = "queued"
    /\ h \in revoked => found
    /\ IF h \in revoked
       THEN /\ wpc' = [wpc EXCEPT ![h] = "revoked"]
            /\ native' = [native EXCEPT ![h] = [state |-> "REVOKED", result |-> NoResult]]
            /\ wread' = wread
       ELSE IF TaskLookupFails(h, found)
       THEN /\ wpc' = [wpc EXCEPT ![h] = "failure"]
            /\ native' = [native EXCEPT ![h] = [state |-> "FAILURE", result |-> NoResult]]
            /\ wread' = wread
       ELSE /\ wpc' = [wpc EXCEPT ![h] = "running"]
            /\ native' = native
            /\ wread' = [wread EXCEPT ![h] =
                            IF task[h].flow = "update"
                            THEN records[task[h].rid].count ELSE 0]
    /\ lastResp' = NoResp
    /\ UNCHANGED <<subscription, increments, events, hook, handled, concurrent, eager, task, revoked, cache, records, poll, mat,
                   okResp, expired, createFailed>>

\* the update task incrementing the counter before it calls the generator
CountAfterRun_IncrementFirst(h, genOk) == wread[h] + 1

\* tasks.py: update_generate_content_count += 1 and save(), reached only
\* when generate_resume has returned; the stored counter of the record
\* after the run
CountAfterRun(h, genOk) ==
    IF genOk THEN wread[h] + 1 ELSE records[task[h].rid].count

\* tasks.py, second half: the generator returns or raises; an update task
\* then saves the loaded counter plus one and the result goes to the native
\* store.
WorkerFinish(h, genOk) ==
    /\ wpc[h] = "running"
    /\ records' = IF task[h].flow = "update"
                  THEN [records EXCEPT ![task[h].rid].count = CountAfterRun(h, genOk)]
                  ELSE records
    /\ IF genOk
       THEN /\ wpc' = [wpc EXCEPT ![h] = "success"]
            /\ native' = [native EXCEPT ![h] =
                             [state |-> "SUCCESS", result |-> ResultOf(h, task[h])]]
       ELSE /\ wpc' = [wpc EXCEPT ![h] = "failure"]
            /\ native' = [native EXCEPT ![h] = [state |-> "FAILURE", result |-> NoResult]]
    /\ lastResp' = NoResp
    /\ UNCHANGED <<subscription, increments, events, hook, handled, concurrent, eager, task, wread, revoked, cache, poll, mat,
                   okResp, expired, createFailed>>

\* ------------------------------------------------------------ environment
\* the 600 second timeout of save_task_result elapses
CacheExpire(h) ==
    /\ cache[h].hit
    /\ cache' = [cache EXCEPT ![h] = Miss]
    /\ expired' = expired \cup {h}
    /\ lastResp' = NoResp
    /\ UNCHANGED <<subscription, increments, events, hook, handled, concurrent, eager, task, wpc, wread, revoked, native, records, poll,
                   mat, okResp, createFailed>>

\* a queued task is revoked from outside
ExternalRevoke(h) ==
    /\ wpc[h] = "queued"
    /\ h \notin revoked
    /\ revoked' = revoked \cup {h}
    /\ lastResp' = NoResp
    /\ UNCHANGED <<subscription, increments, events, hook, handled, concurrent, eager, task, wpc, wread, native, cache, records, poll,
                   mat, okResp, expired, createFailed>>

\* --------------------------------------------------- poll / materialize
\* The four views GeneratedAIContentView, UpdatedGeneratedAIContentView,
\* ViewGeneratedCoverLetterContentView and
\* UpdatedGeneratedAICoverLetterContentView share one shape; kind and flow
\* select the view.

\* the record kind served by the endpoint through which h is polled
EndpointKind(h) == IF task[h] = NoTask THEN "resume" ELSE task[h].kind

\* get() without the "if cached_data" test of the pending branch
LookupPath_NoCacheCheck(st, cached, result) ==
    IF IsFailed(st) THEN "failed"
    ELSE IF IsReady(st)
         THEN IF IsSuccess(st) /\ (Truthy(cached) \/ Truthy(result))
              THEN "ready" ELSE "nodata"
         ELSE "pending_cached"

\* get() looking at the cache before asking the native store for ready()
LookupPath_CacheFirst(st, cached, result) ==
    IF IsFailed(st) THEN "failed"
    ELSE IF Truthy(cached) THEN "pending_cached"
    ELSE IF IsReady(st)
         THEN IF IsSuccess(st) /\ Truthy(result) THEN "ready" ELSE "nodata"
         ELSE "pending"

\* Order of the checks of get(): failed, ready (with the result at hand or
\* not), pending with a cache entry, pending.
LookupPath(st, cached, result) ==
    IF IsFailed(st) THEN "failed"
    ELSE IF IsReady(st)
         THEN IF IsSuccess(st) /\ (Truthy(cached) \/ Truthy(result))
              THEN "ready" ELSE "nodata"
         ELSE IF Truthy(cached) THEN "pending_cached" ELSE "pending"

\* get() without the save of an uncached native result
SaveOnReady_Never(st, cached) == FALSE

\* "If data is not cached but task is successful, cache it first"
SaveOnReady(st, cached) ==
    ~IsFailed(st) /\ IsReady(st) /\ ~Truthy(cached) /\ IsSuccess(st)

\* the response of a poll, from its locals q
PollResp(q, st, m, f) ==
    [op |-> "poll", status |-> st, msg |-> m, h |-> q.h, user |-> q.user,
     flow |-> q.flow, path |-> q.path, rec |-> 0, content |-> "none",
     state |-> "none", obs |-> q.obs, hadCache |-> q.hadCache,
     after |-> q.after, late |-> q.late, writes |-> q.writes,
     rid |-> q.data.rid, fault |-> f, cleanup |-> "none"]

\* the pending response without its task_state field
PendingResp_NoState(q) == PollResp(q, 202, "pending", "none")

\* 202: status Pending, task_id and task_state
PendingResp(q) == [PollResp(q, 202, "pending", "none") EXCEPT !.state = q.obs]

\* 201 / 200: the record's fields and the task id
SuccessResp(q, recs) ==
    [PollResp(q, IF q.flow = "create" THEN 201 ELSE 200,
              IF q.flow = "create" THEN "created" ELSE "updated", "none")
        EXCEPT !.rec = q.rec, !.content = recs[q.rec].content]

\* a creation error answered with the message of the outer except clause
FailedMsg_Generic(fl) == "unexpected"

\* message of the 500 response of the inner except clause
FailedMsg(fl) == IF fl = "create" THEN "create_failed" ELSE "update_failed"

\* the KeyError clause answering like the BackendError clause
ErrorStatus_KeyErrorNotFound(fault) ==
    CASE fault = "BackendError" -> 404
      [] fault = "KeyError" -> 404
      [] OTHER -> 500

\* status of the three except clauses at the end of get()
ErrorStatus(fault) ==
    CASE fault = "BackendError" -> 404
      [] fault = "KeyError" -> 400
      [] OTHER -> 500

\* message of the three except clauses at the end of get()
ErrorMsg(fault) ==
    CASE fault = "BackendError" -> "task_not_found"
      [] fault = "KeyError" -> "metadata_missing"
      [] OTHER -> "unexpected"

\* AsyncResult.revoke(): a task still waiting in the queue is discarded
\* when a worker picks it up
revoke(h) == IF wpc[h] = "queued" THEN revoked \cup {h} ELSE revoked

\* AsyncResult(...) and the state checks raise: the three except clauses
\* at the end of get(), with their best-effort cleanup (try: ... except:
\* pass); the answer is the same for every user and for the create and the
\* update view.  When the cleanup of the last clause raises, either revoke()
\* raised or revoke() was done and forget() raised.
PollLookupError(p, h, u, flow, fault, cleanupOk) ==
    LET q == [IdlePoll EXCEPT !.h = h, !.obs = "error",
                              !.after = okResp[h] > 0,
                              !.late = h \in expired] IN
    /\ fault \in {"BackendError", "KeyError", "Exception"}
    /\ fault = "BackendError" => cleanupOk
    /\ lastResp' = [PollResp(q, ErrorStatus(fault), ErrorMsg(fault), fault)
                      EXCEPT !.cleanup = CASE fault = "BackendError" -> "none"
                                           [] cleanupOk -> "done"
                                           [] OTHER -> "raised"]
    /\ native' = IF fault # "BackendError" /\ cleanupOk
                 THEN forget(h) ELSE native
    /\ IF fault = "Exception"
       THEN IF cleanupOk
            THEN revoked' = revoke(h)
            ELSE revoked' \in {revoked, revoke(h)}
       ELSE revoked' = revoked
    /\ UNCHANGED <<cache, poll>>

\* get() up to the point where the result is at hand
PollLookupOk(p, h, u, flow) ==
    LET st == native[h].state
        cached == get_task_result(h)
        path == LookupPath(st, cached, native[h].result)
        data == IF SaveOnReady(st, cached) THEN native[h].result ELSE cached
        q == [IdlePoll EXCEPT !.h = h, !.user = u, !.kind = EndpointKind(h),
                              !.flow = flow, !.obs = st,
                              !.hadCache = cache[h].hit,
                              !.after = okResp[h] > 0,
                              !.late = h \in expired,
                              !.path = path, !.data = data]
        \* answers given before the result is used are the same for every
        \* user and for the create and the update view
        early == [q EXCEPT !.user = "none", !.flow = "none", !.data = NoResult] IN
    /\ cache' = IF SaveOnReady(st, cached)
                THEN save_task_result(h, native[h].result)
                ELSE cache
    /\ IF path \in {"ready", "pending_cached"}
       THEN /\ poll' = [poll EXCEPT ![p] = [q EXCEPT !.pc = "mat"]]
            /\ lastResp' = NoResp
       ELSE /\ poll' = poll
            /\ lastResp' = CASE path = "failed" -> PollResp(early, 400, "failed", "none")
                             [] path = "nodata" -> PollResp(early, 400, "no_valid_data", "none")
                             [] OTHER -> PendingResp(early)
    /\ UNCHANGED <<native, revoked>>

PollLookup(p, h, u, flow, fault, cleanupOk) ==
    /\ CanServe
    /\ poll[p].pc = "idle"
    /\ mat[h] < MaxMat
    /\ IF fault = "none"
       THEN cleanupOk /\ PollLookupOk(p, h, u, flow)
       ELSE PollLookupError(p, h, u, flow, fault, cleanupOk)
    /\ UNCHANGED <<subscription, increments, events, hook, handled, concurrent, eager, task, wpc, wread, records, mat, okResp,
                   expired, createFailed>>

\* the create call given the user of the task instead of request.user
create_resume_SubmitterOwner(kind, u, data) ==
    [kind |-> kind, owner |-> task[data.src].user, count |-> DefaultCount,
     content |-> data.src]

\* repositories.py create_resume / create_cover_letter: the new row
create_resume(kind, u, data) ==
    [kind |-> kind, owner |-> u, count |-> DefaultCount, content |-> data.src]

\* repositories.py update_resume: Resume.objects.filter(id=resume_id)
\* update_cover_letter: CoverLetter.objects.filter(id=cover_letter_id, user=user)
update_resume(kind, rid, u) ==
    {r \in RecordIds : /\ r = rid
                       /\ records[r].kind = kind
                       /\ kind = "cover_letter" => records[r].owner = u}

\* an answered poll returns to idle
Answer(p, r) ==
    /\ poll' = [poll EXCEPT ![p] = IdlePoll]
    /\ lastResp' = r

\* the create call of the create views
MaterializeCreate(p, fault) ==
    LET q == poll[p] IN
    IF fault = "write"
    THEN /\ Answer(p, PollResp(q, 500, FailedMsg("create"), fault))
         /\ createFailed' = createFailed \cup {q.h}
         /\ UNCHANGED <<records, mat>>
    ELSE /\ records' = Append(records, create_resume(q.kind, q.user, q.data))
         /\ mat' = [mat EXCEPT ![q.h] = @ + 1]
         /\ poll' = [poll EXCEPT ![p] = [q EXCEPT !.pc = "cleanup",
                                                 !.rec = Len(records) + 1,
                                                 !.writes = @ + 1]]
         /\ lastResp' = NoResp
         /\ createFailed' = createFailed

\* the update call of the update views, with the checks around it; the
\* branch of a pending task with a cache entry has no else for a missing
\* id or an update of no row and falls through to the pending response
MaterializeUpdate(p, fault) ==
    LET q == poll[p]
        rid == q.data.rid
        rows == update_resume(q.kind, rid, q.user)
        qw == [q EXCEPT !.writes = @ + 1, !.rec = rid] IN
    IF rid = 0
    THEN /\ Answer(p, IF q.path = "ready"
                      THEN PollResp(q, 400, "id_missing", "none")
                      ELSE PendingResp(q))
         /\ UNCHANGED <<records, mat, createFailed>>
    ELSE IF fault = "write"
    THEN /\ Answer(p, PollResp(q, 500, FailedMsg("update"), fault))
         /\ createFailed' = createFailed \cup {q.h}
         /\ UNCHANGED <<records, mat>>
    ELSE IF rows = {}
    THEN /\ Answer(p, IF q.path = "ready"
                      THEN PollResp(q, 500, "save_failed", "none")
                      ELSE PendingResp(q))
         /\ UNCHANGED <<records, mat, createFailed>>
    ELSE /\ records' = [r \in RecordIds |->
                          IF r \in rows
                          THEN [records[r] EXCEPT !.content = q.data.src]
                          ELSE records[r]]
         /\ mat' = [mat EXCEPT ![q.h] = @ + 1]
         /\ createFailed' = createFailed
         /\ IF OwnedBy(rid, q.kind, q.user)
            THEN /\ poll' = [poll EXCEPT ![p] = [qw EXCEPT !.pc = "cleanup"]]
                 /\ lastResp' = NoResp
            ELSE Answer(p, IF q.path = "ready"
                           THEN PollResp(qw, 404, "record_not_found", "none")
                           ELSE PollResp(qw, 500, FailedMsg("update"), "none"))

PollMaterialize(p, fault) ==
    /\ poll[p].pc = "mat"
    /\ fault \in {"none", "write"}
    /\ IF poll[p].flow = "create"
       THEN MaterializeCreate(p, fault)
       ELSE MaterializeUpdate(p, fault)
    /\ UNCHANGED <<subscription, increments, events, hook, handled, concurrent, eager, task, wpc, wread, revoked, native, cache,
                   okResp, expired>>

\* delete_task(task id), forget(), and the success response; either call
\* may raise, which the inner except clause turns into the 500 response
PollCleanup(p, fault) ==
    LET q == poll[p] IN
    /\ q.pc = "cleanup"
    /\ fault \in {"none", "delete", "forget"}
    /\ cache' = IF fault = "delete" THEN cache ELSE delete_task(q.h)
    /\ native' = IF fault = "none" THEN forget(q.h) ELSE native
    /\ okResp' = IF fault = "none" THEN [okResp EXCEPT ![q.h] = @ + 1] ELSE okResp
    /\ Answer(p, IF fault = "none"
                 THEN SuccessResp(q, records)
                 ELSE PollResp(q, 500, FailedMsg(q.flow), fault))
    /\ UNCHANGED <<subscription, increments, events, hook, handled, concurrent, eager, task, wpc, wread, revoked, records, mat,
                   expired, createFailed>>

\* ---------------------------------------------------------- specification
LookupFaults == {"none", "BackendError", "KeyError", "Exception"}

Next ==
    \/ \E h \in Handles, u \in Users, k \in Kinds, g \in BOOLEAN :
          SubmitCreate(h, u, k, g)
    \/ \E h \in Handles, u \in Users, k \in Kinds, r \in RecordIds, g \in BOOLEAN :
          SubmitUpdate(h, u, k, r, g)
    \/ \E u \in Users, k \in Kinds, r \in RecordIds :
          SubmitUpdateRejected(u, k, r)
    \/ \E h \in Handles, f \in BOOLEAN : WorkerStart(h, f)
    \/ \E h \in Handles, g \in BOOLEAN : WorkerFinish(h, g)
    \/ \E h \in Handles : CacheExpire(h)
    \/ \E h \in Handles : ExternalRevoke(h)
    \/ \E p \in Pollers, h \in Handles, u \in Users, f \in Flows,
          e \in LookupFaults, c \in BOOLEAN :
          PollLookup(p, h, u, f, e, c)
    \/ \E p \in Pollers, e \in {"none", "write"} : PollMaterialize(p, e)
    \/ \E p \in Pollers, e \in {"none", "delete", "forget"} : PollCleanup(p, e)

Spec == Init /\ [][Next]_vars

SpecConc == InitConc /\ [][Next]_vars

\* Operations on the existing records: update-generation requests and
\* worker runs of several handles, and plain updates; the handles are not
\* polled.
InitRegen ==
    /\ concurrent = FALSE
    /\ eager \in BOOLEAN
    /\ task = [h \in RegenHandles |-> NoTask]
    /\ wpc = [h \in RegenHandles |-> "none"]
    /\ wread = [h \in RegenHandles |-> 0]
    /\ revoked = {}
    /\ native = [h \in RegenHandles |-> Forgotten]
    /\ cache = [h \in RegenHandles |-> Miss]
    /\ records = InitRecords
    /\ poll = [p \in Pollers |-> IdlePoll]
    /\ lastResp = NoResp
    /\ mat = [h \in RegenHandles |-> 0]
    /\ okResp = [h \in RegenHandles |-> 0]
    /\ expired = {}
    /\ createFailed = {}
    /\ subscription = NewPlan
    /\ increments = 0
    /\ events = [e \in Events |-> NoEvent]
    /\ hook = [d \in Deliveries |-> IdleHook]
    /\ handled = [e \in Events |-> 0]

NextRegen ==
    \/ \E h \in RegenHandles, u \in Users, k \in Kinds, r \in RecordIds, g \in BOOLEAN :
          SubmitUpdate(h, u, k, r, g)
    \/ \E u \in Users, k \in Kinds, r \in RecordIds :
          SubmitUpdateRejected(u, k, r)
    \/ \E u \in Users, k \in Kinds, r \in RecordIds, v \in BOOLEAN :
          PlainUpdate(u, k, r, v)
    \/ \E h \in RegenHandles, f \in BOOLEAN : WorkerStart(h, f)
    \/ \E h \in RegenHandles, g \in BOOLEAN : WorkerFinish(h, g)

SpecRegen == InitRegen /\ [][NextRegen]_vars

\* ------------------------------------------------------- subscription plan
PlanChoices == {"free", "pro"}

StatusChoices == {"active", "canceled", "past_due", "unpaid", "incomplete",
                  "incomplete_expired", "trialing"}

\* has_pro_access without the test of the plan field
has_pro_access_AnyPlan(s) ==
    IF s.status \in {"active", "trialing"}
    THEN IF s.period # "none" THEN s.period = "future" ELSE TRUE
    ELSE FALSE

\* SubscriptionPlan.has_pro_access
has_pro_access(s) ==
    IF s.plan # "pro" THEN FALSE
    ELSE IF s.status \in {"active", "trialing"}
         THEN IF s.period # "none" THEN s.period = "future" ELSE TRUE
         ELSE FALSE

\* SubscriptionPlan.can_generate_resume
can_generate_resume(s) ==
    IF has_pro_access(s) THEN TRUE ELSE s.resume_count < FreeResumes

PlanResp(op, st) ==
    [NoResp EXCEPT !.op = op, !.status = st]

\* SubscriptionPlan.increment_resume_count
increment_resume_count ==
    /\ subscription.resume_count < MaxResumeCount
    /\ subscription' = [subscription EXCEPT !.resume_count = @ + 1]
    /\ increments' = increments + 1
    /\ lastResp' = PlanResp("increment", 0)
    /\ UNCHANGED <<flowVars, hookVars>>

\* SubscriptionPlan.reset_resume_count
reset_resume_count ==
    /\ subscription' = [subscription EXCEPT !.resume_count = 0]
    /\ increments' = 0
    /\ lastResp' = PlanResp("reset", 0)
    /\ UNCHANGED <<flowVars, hookVars>>

\* subscriptions/utils.py handle_resume_generation: the limit is checked,
\* then the counter is incremented
handle_resume_generation ==
    /\ subscription.resume_count < MaxResumeCount
    /\ IF ~can_generate_resume(subscription)
       THEN /\ lastResp' = PlanResp("generate", 500)
            /\ UNCHANGED <<subscription, increments>>
       ELSE /\ subscription' = [subscription EXCEPT !.resume_count = @ + 1]
            /\ increments' = increments + 1
            /\ lastResp' = PlanResp("generate", 200)
    /\ UNCHANGED <<flowVars, hookVars>>

\* timezone.now() passes current_period_end
PeriodEnds ==
    /\ subscription.period = "future"
    /\ subscription' = [subscription EXCEPT !.period = "past"]
    /\ lastResp' = NoResp
    /\ UNCHANGED <<increments, flowVars, hookVars>>

\* A plan row of any plan, status and period whose counter is at 0.
InitPlan ==
    /\ concurrent = FALSE
    /\ eager = FALSE
    /\ task = [h \in Handles |-> NoTask]
    /\ wpc = [h \in Handles |-> "none"]
    /\ wread = [h \in Handles |-> 0]
    /\ revoked = {}
    /\ native = [h \in Handles |-> Forgotten]
    /\ cache = [h \in Handles |-> Miss]
    /\ records = InitRecords
    /\ poll = [p \in Pollers |-> IdlePoll]
    /\ lastResp = NoResp
    /\ mat = [h \in Handles |-> 0]
    /\ okResp = [h \in Handles |-> 0]
    /\ expired = {}
    /\ createFailed = {}
    /\ subscription \in {s \in [plan : PlanChoices, status : StatusChoices,
                                period : {"none", "future", "past"},
                                resume_count : {0}, is_active : BOOLEAN,
                                stripe_subscription_id : {"none"}] :
                               s.is_active = (s.status \in {"active", "trialing"})}
    /\ increments = 0
    /\ events = [e \in Events |-> NoEvent]
    /\ hook = [d \in Deliveries |-> IdleHook]
    /\ handled = [e \in Events |-> 0]

NextPlan ==
    \/ increment_resume_count
    \/ reset_resume_count
    \/ handle_resume_generation
    \/ PeriodEnds

SpecPlan == InitPlan /\ [][NextPlan]_vars

\* --------------------------------------------------------- Stripe webhooks
\* process_webhook_event dispatches on these types; "other" stands for
\* every type it only logs as unhandled
EventTypes == {"checkout.session.completed", "customer.subscription.created",
               "customer.subscription.updated", "customer.subscription.deleted",
               "invoice.payment_succeeded", "invoice.payment_failed", "other"}

\* statuses of the Stripe subscription object an event or a retrieval
\* carries: one that makes the plan active, one that does neither, one
\* that downgrades it
HookStatuses == {"active", "past_due", "canceled"}

\* the types whose data.object is a Stripe subscription
CarriesStatus == {"customer.subscription.created", "customer.subscription.updated"}

\* type and object status of an event; an event id always has the same
EventContents ==
    {c \in [type : EventTypes, status : HookStatuses \cup {"none"}] :
        (c.type \in CarriesStatus) = (c.status # "none")}

\* handle_payment_succeeded / handle_payment_failed catch every exception,
\* and an unhandled type is only logged; the other handlers let an
\* exception out (handle_checkout_completed re-raises, the subscription
\* handlers catch DoesNotExist only)
CanRaise == {"checkout.session.completed", "customer.subscription.created",
             "customer.subscription.updated", "customer.subscription.deleted"}

\* SubscriptionPlan.update_from_stripe_subscription; the Stripe object is
\* the one subscription "s1" of the customer, in its current period
update_from_stripe_subscription(s, st) ==
    [s EXCEPT !.stripe_subscription_id = "s1", !.status = st, !.period = "future",
              !.is_active = (st \in {"active", "trialing"})]

\* handle_checkout_completed; st is the status of the subscription the
\* handler retrieves from Stripe, "none" a session without a subscription
handle_checkout_completed(s, st) ==
    IF st = "none" THEN s
    ELSE update_from_stripe_subscription([s EXCEPT !.plan = "pro"], st)

\* handle_subscription_created
handle_subscription_created(s, st) ==
    update_from_stripe_subscription([s EXCEPT !.plan = "pro"], st)

\* handle_subscription_updated: the plan is looked up by the subscription id
handle_subscription_updated(s, st) ==
    IF s.stripe_subscription_id # "s1" THEN s
    ELSE LET t == update_from_stripe_subscription(s, st)
         IN  IF st \in {"canceled", "unpaid"} THEN [t EXCEPT !.plan = "free"] ELSE t

\* handle_subscription_deleted
handle_subscription_deleted(s) ==
    IF s.stripe_subscription_id # "s1" THEN s
    ELSE [s EXCEPT !.plan = "free", !.status = "canceled", !.is_active = FALSE,
                   !.stripe_subscription_id = "none"]

\* process_webhook_event: the plan row after the handler of the type ran
process_webhook_event(s, type, status, st) ==
    CASE type = "checkout.session.completed" -> handle_checkout_completed(s, st)
      [] type = "customer.subscription.created" -> handle_subscription_created(s, status)
      [] type = "customer.subscription.updated" -> handle_subscription_updated(s, status)
      [] type = "customer.subscription.deleted" -> handle_subscription_deleted(s)
      [] OTHER -> s

\* the instance after the try block of post, with processed set although
\* the handler raised
AfterProcessing_ProcessedOnError(w, raised) ==
    IF raised THEN [w EXCEPT !.processed = TRUE, !.error = TRUE]
    ELSE [w EXCEPT !.processed = TRUE, !.error = FALSE]

\* StripeWebhookView.post, the try / except around process_webhook_event:
\* the fields of the webhook_event instance the request holds
AfterProcessing(w, raised) ==
    IF raised THEN [w EXCEPT !.error = TRUE]
    ELSE [w EXCEPT !.processed = TRUE, !.error = FALSE]

\* webhook_event.save(): every field of the instance is written to the row
SavedEvent(w) ==
    [stored |-> TRUE, type |-> w.type, status |-> w.status,
     processed |-> w.processed, error |-> w.error]

HookResp(st, e, ran, fault) ==
    [NoResp EXCEPT !.op = "webhook", !.status = st, !.event = e, !.ran = ran,
                   !.fault = fault]

NoHookInFlight == \A d \in Deliveries : hook[d].pc = "idle"

\* post: if not created and webhook_event.processed
AckProcessed(w) == w.stored /\ w.processed

\* post: construct_event raises ValueError or SignatureVerificationError
HookRejected ==
    /\ concurrent \/ NoHookInFlight
    /\ lastResp' = HookResp(400, "none", FALSE, "signature")
    /\ UNCHANGED <<subscription, increments, flowVars, hookVars>>

\* post up to the test of processed: get_or_create by stripe_event_id, then
\* either the early 200 or the request goes on to process the event
HookReceive(d, e, c) ==
    /\ concurrent \/ NoHookInFlight
    /\ hook[d].pc = "idle"
    /\ events[e].stored => (c.type = events[e].type /\ c.status = events[e].status)
    /\ IF AckProcessed(events[e])
       THEN /\ lastResp' = HookResp(200, e, FALSE, "none")
            /\ UNCHANGED <<events, hook>>
       ELSE /\ events' = [events EXCEPT ![e] =
                            IF @.stored THEN @
                            ELSE [NoEvent EXCEPT !.stored = TRUE, !.type = c.type,
                                                 !.status = c.status]]
            /\ hook' = [hook EXCEPT ![d] =
                          [pc |-> "process", e |-> e, type |-> c.type,
                           status |-> c.status, processed |-> events[e].processed,
                           error |-> events[e].error]]
            /\ lastResp' = NoResp
    /\ UNCHANGED <<subscription, increments, handled, flowVars>>

\* post from process_webhook_event to the response: the handler runs, the
\* instance is saved in the finally clause, and 200 or 500 is returned
HookProcess(d, raises, st) ==
    /\ hook[d].pc = "process"
    /\ raises => hook[d].type \in CanRaise
    /\ (st # "none") => hook[d].type = "checkout.session.completed"
    /\ LET e == hook[d].e
           w == AfterProcessing(hook[d], raises)
       IN  /\ ~raises => handled[e] < MaxHandled
           /\ subscription' =
                 IF raises THEN subscription
                 ELSE process_webhook_event(subscription, hook[d].type,
                                            hook[d].status, st)
           /\ handled' = [handled EXCEPT ![e] = IF raises THEN @ ELSE @ + 1]
           /\ events' = [events EXCEPT ![e] = SavedEvent(w)]
           /\ lastResp' = IF raises THEN HookResp(500, e, FALSE, "handler")
                          ELSE HookResp(200, e, TRUE, "none")
    /\ hook' = [hook EXCEPT ![d] = IdleHook]
    /\ UNCHANGED <<increments, flowVars>>

\* VerifyCheckoutSessionView.get for a session of the user's customer: paid
\* is payment_status = "paid", st the status of session.subscription
\* ("none": the session has no subscription)
VerifyCheckout(paid, st) ==
    /\ subscription' =
          IF paid /\ st # "none"
          THEN update_from_stripe_subscription([subscription EXCEPT !.plan = "pro"], st)
          ELSE subscription
    /\ lastResp' = PlanResp("verify", 200)
    /\ UNCHANGED <<increments, flowVars, hookVars>>

\* PaymentStatusView.get: a plan with a subscription id is refreshed from
\* the subscription Stripe returns for it
PaymentStatus(st) ==
    /\ subscription' =
          IF subscription.stripe_subscription_id # "none"
          THEN update_from_stripe_subscription(subscription, st)
          ELSE subscription
    /\ lastResp' = PlanResp("payment-status", 200)
    /\ UNCHANGED <<increments, flowVars, hookVars>>

\* what get_customer_subscriptions returns: no subscription, subscriptions
\* none of which is active, trialing or past_due, or the status of the
\* first one that is
SyncChoices == {"empty", "inactive", "active", "trialing", "past_due"}

\* subscriptions/utils.py sync_subscription_from_stripe, for a plan that
\* has its Stripe customer id
sync_subscription_from_stripe(s, found) ==
    CASE found = "empty" -> s
      [] found = "inactive" -> [s EXCEPT !.plan = "free", !.status = "canceled"]
      [] OTHER -> update_from_stripe_subscription(s, found)

\* RefreshSubscriptionView.post
RefreshSubscription(found) ==
    /\ subscription' = sync_subscription_from_stripe(subscription, found)
    /\ lastResp' = [PlanResp("sync", 200) EXCEPT !.state = found]
    /\ UNCHANGED <<increments, flowVars, hookVars>>

\* The webhook endpoint and the requests that rewrite the plan from Stripe,
\* served by several server processes.
InitHook == InitState /\ concurrent = TRUE /\ eager = FALSE

NextHook ==
    \/ HookRejected
    \/ \E d \in Deliveries, e \in Events, c \in EventContents : HookReceive(d, e, c)
    \/ \E d \in Deliveries, r \in BOOLEAN, st \in HookStatuses \cup {"none"} :
          HookProcess(d, r, st)
    \/ \E p \in BOOLEAN, st \in HookStatuses \cup {"none"} : VerifyCheckout(p, st)
    \/ \E st \in HookStatuses : PaymentStatus(st)
    \/ \E f \in SyncChoices : RefreshSubscription(f)

SpecHook == InitHook /\ [][NextHook]_vars

\* ------------------------------------------------------------- properties
\* the response of the step just taken answers a poll
Polled == lastResp.op = "poll"

\* records created from the result of handle h
CreatedFrom(h) ==
    {r \in RecordIds : r > Len(InitRecords) /\ records[r].content = h}

\* pollers holding the result of handle h between lookup and response
Materializing(h) ==
    {p \in Pollers : poll[p].pc \in {"mat", "cleanup"} /\ poll[p].h = h}

\* C1: with polls served one after the other, the result of a handle is
\* written to the record store (created or applied as an update) at most
\* once, however often the handle is polled.
C1_AtMostOneMaterialization == \A h \in Handles : mat[h] <= 1

\* C2: when polls of one handle overlap, at most one of them holds the
\* cached result for materialization, and no handle ever has two records
\* created from it.
C2_RaceMaterializesOnce ==
    \A h \in Handles :
        /\ Cardinality(Materializing(h)) <= 1
        /\ Cardinality(CreatedFrom(h)) <= 1

\* C3: a poll that starts after a success response for its handle is
\* answered with the not-found / metadata-missing failure (never pending,
\* never a second success), and a handle gets at most one success response.
C3_LaterPollsNotFound ==
    /\ (Polled /\ lastResp.after) =>
           /\ lastResp.status \in {400, 404}
           /\ lastResp.msg \in {"task_not_found", "metadata_missing"}
    /\ \A h \in Handles : okResp[h] <= 1

\* C4: a poll changes the content of a record only if the record is owned
\* by the polling user, and a success response carries only a record of the
\* polling user.
C4_OwnerScopedWrites ==
    [][ /\ \A r \in RecordIds :
              records'[r].content # records[r].content =>
                  \E p \in Pollers : /\ poll[p].pc = "mat"
                                     /\ poll[p].user = records[r].owner
        /\ (lastResp'.op = "poll" /\ lastResp'.status \in {200, 201}) =>
              records'[lastResp'.rec].owner = lastResp'.user
      ]_vars

\* C5: a poll that finds the native state FAILURE answers 400 "failed"
\* without writing anything, and a handle whose task failed never has a
\* record written from it and never gets a success response.
C5_FailedTaskNeverMaterialized ==
    /\ (Polled /\ lastResp.obs = "FAILURE") =>
           /\ lastResp.status = 400
           /\ lastResp.msg = "failed"
           /\ lastResp.writes = 0
           /\ lastResp.rec = 0
    /\ \A h \in Handles :
           wpc[h] = "failure" => mat[h] = 0 /\ okResp[h] = 0 /\ ~cache[h].hit

C5_Witness ==
    /\ Polled /\ lastResp.obs = "FAILURE" /\ lastResp.status = 400
    /\ wpc[lastResp.h] = "failure"

\* C6: a poll that finds the native store not ready and no cache entry
\* answers 202 with the task id and the native state string, carries no
\* record, and leaves cache, native store and record store as they were.
C6_PendingPollNoEffects ==
    [][ ( /\ lastResp'.op = "poll"
          /\ lastResp'.obs = "PENDING"
          /\ ~lastResp'.hadCache ) =>
        ( /\ lastResp'.status = 202
          /\ lastResp'.msg = "pending"
          /\ lastResp'.state = lastResp'.obs
          /\ lastResp'.rec = 0
          /\ lastResp'.writes = 0
          /\ UNCHANGED <<cache, native, records>> )
      ]_vars

C6_Witness ==
    /\ Polled /\ lastResp.status = 202 /\ ~lastResp.hadCache
    /\ wpc[lastResp.h] \in {"queued", "running"}

\* C7: an update-flow poll that holds a successful result without the
\* record id answers 400 "id missing" and writes nothing, on the ready path
\* and on the pending-with-cache path.
C7_MissingIdIsClientError ==
    ( /\ Polled
      /\ lastResp.flow = "update"
      /\ lastResp.path \in {"ready", "pending_cached"}
      /\ lastResp.rid = 0 ) =>
    ( /\ lastResp.status = 400
      /\ lastResp.msg = "id_missing"
      /\ lastResp.writes = 0 )

\* C8: a create-flow poll that finds the task ready and successful, and in
\* which no call raises, makes one create call with the result's content
\* and the requesting user, removes the cache entry and the native result,
\* and answers 201 with the new record and the task id.
C8_ReadyPollCreatesOnce ==
    ( /\ Polled
      /\ lastResp.flow = "create"
      /\ lastResp.obs = "SUCCESS"
      /\ lastResp.fault = "none" ) =>
    ( /\ lastResp.status = 201
      /\ lastResp.msg = "created"
      /\ lastResp.writes = 1
      /\ lastResp.rec = Len(records)
      /\ records[lastResp.rec] =
            [kind |-> task[lastResp.h].kind, owner |-> lastResp.user,
             count |-> DefaultCount, content |-> ResultOf(lastResp.h, task[lastResp.h]).src]
      /\ lastResp.content = records[lastResp.rec].content
      /\ cache[lastResp.h] = Miss
      /\ native[lastResp.h] = Forgotten )

C8_Witness ==
    /\ Polled /\ lastResp.flow = "create" /\ lastResp.obs = "SUCCESS"
    /\ lastResp.status = 201 /\ ~lastResp.hadCache

\* C9: when the create call of a ready, successful create-flow poll raises,
\* the poll answers 500 "completed but failed to create" with the task id,
\* writes no record, and deletes neither the cache entry nor the native
\* result, which still holds the successful result for a later poll.
C9_CreateFailureKeepsResult ==
    [][ ( /\ lastResp'.op = "poll"
          /\ lastResp'.flow = "create"
          /\ lastResp'.obs = "SUCCESS"
          /\ lastResp'.fault = "write" ) =>
        ( /\ lastResp'.status = 500
          /\ lastResp'.msg = "create_failed"
          /\ lastResp'.writes = 0
          /\ UNCHANGED <<records, cache, native>>
          /\ cache'[lastResp'.h].hit \/ lastResp'.h \in expired'
          /\ native'[lastResp'.h].state = "SUCCESS"
          /\ Truthy(native'[lastResp'.h].result) )
      ]_vars

\* a later poll of the handle did materialize the result
C9_Witness ==
    /\ Polled /\ lastResp.status = 201 /\ lastResp.obs = "SUCCESS"
    /\ lastResp.h \in createFailed
    /\ lastResp.hadCache

\* C10 as stated: a poll that starts after the cache entry of its handle
\* has expired writes no record.
C10_ExpiredNeverMaterialized ==
    [][ \A p \in Pollers :
            (poll[p].pc = "mat" /\ poll[p].late) =>
                mat'[poll[p].h] = mat[poll[p].h]
      ]_vars

\* the result of h is lost: its cache entry has expired and is absent, the
\* native store does not report success, and no poll holds a copy
Unrecoverable(h) ==
    /\ h \in expired
    /\ ~cache[h].hit
    /\ native[h].state # "SUCCESS"
    /\ \A p \in Pollers : poll[p].h # h

\* C10 amended: once the cache entry of a handle has expired and the native
\* store does not report the task successful, that stays so and no poll
\* writes a record from the handle.
C10_ExpiredAndForgottenNeverMaterialized ==
    [][ \A h \in Handles :
            Unrecoverable(h) => (Unrecoverable(h)' /\ mat'[h] = mat[h])
      ]_vars

C10_Witness ==
    /\ Polled /\ lastResp.late /\ lastResp.status = 202
    /\ Unrecoverable(lastResp.h)

\* C11: an error raised by the native store while polling is answered by
\* the endpoint with a fixed response: backend unavailable gives 404 and
\* touches nothing; metadata missing gives 400 and the handle's task meta
\* is forgotten; any other exception gives 500 and the handle is revoked
\* and forgotten.  When the cleanup itself raises, the response is the
\* same and at most the part of the cleanup already done has taken effect.
\* No record and no cache entry is touched.
C11_PollErrorsMapToFixedResponses ==
    [][ ( /\ lastResp'.op = "poll"
          /\ lastResp'.fault \in {"BackendError", "KeyError", "Exception"} ) =>
        LET h == lastResp'.h
            f == lastResp'.fault
            done == lastResp'.cleanup = "done" IN
        /\ f = "BackendError" =>
              /\ lastResp'.status = 404 /\ lastResp'.msg = "task_not_found"
              /\ UNCHANGED <<native, revoked>>
        /\ f = "KeyError" =>
              /\ lastResp'.status = 400 /\ lastResp'.msg = "metadata_missing"
              /\ native' = IF done THEN forget(h) ELSE native
              /\ revoked' = revoked
        /\ f = "Exception" =>
              /\ lastResp'.status = 500 /\ lastResp'.msg = "unexpected"
              /\ native' = IF done THEN forget(h) ELSE native
              /\ IF done THEN revoked' = revoke(h)
                         ELSE revoked' \in {revoked, revoke(h)}
        /\ lastResp'.rec = 0 /\ lastResp'.writes = 0
        /\ UNCHANGED <<records, cache, poll, mat, okResp>>
      ]_vars

\* a metadata-missing poll whose forget raised, on a handle with a result
C11_Witness ==
    /\ Polled /\ lastResp.fault = "KeyError" /\ lastResp.cleanup = "raised"
    /\ lastResp.status = 400
    /\ native[lastResp.h].state = "SUCCESS"

\* update tasks of record r whose generator has run to the end
Regenerations(r) ==
    {h \in DOMAIN task : /\ task[h].flow = "update"
                         /\ task[h].rid = r
                         /\ wpc[h] = "success"}

\* C12: an update-generation request for a record whose counter is 3 or
\* more is answered 400 "free limit" and enqueues nothing, and a record
\* (counter starting at 1) therefore receives at most 3 - 1 regenerations.
C12_CounterBoundsRegenerations ==
    /\ lastResp.msg = "free_limit" => (lastResp.status = 400 /\ lastResp.h = "none")
    /\ \A r \in RecordIds :
           Cardinality(Regenerations(r)) <= FreeLimit - DefaultCount

\* the values a cache entry or a native result can hold
ResultValues ==
    {NoResult} \cup {[src |-> h, rid |-> r] : h \in Handles, r \in 0..Len(InitRecords)}

C14_PlainUpdateOwnerOnly ==
    [][ lastResp'.op = "update" =>
        LET r == lastResp'.rec IN
        /\ records[r].owner # lastResp'.user =>
               (lastResp'.status = 404 /\ records' = records)
        /\ (records[r].owner = lastResp'.user /\ lastResp'.msg # "invalid") =>
               /\ lastResp'.status = 200
               /\ records'[r] = [records[r] EXCEPT !.content = lastResp'.content]
               /\ records'[r].content = "edited"
               /\ \A o \in RecordIds \ {r} : records'[o] = records[o]
        /\ lastResp'.status \in {200, 400, 404}
        /\ lastResp'.status # 200 => records' = records
      ]_vars

\* u2 was refused on a record of u1 that u1 itself has edited
C14_Witness ==
    /\ lastResp.op = "update" /\ lastResp.status = 404
    /\ lastResp.user = "u2"
    /\ records[lastResp.rec].owner = "u1"
    /\ records[lastResp.rec].content = "edited"

\* C15: can_generate_resume of a free plan is true exactly when
\* resume_count is below 3, and is true for every pro plan whose status is
\* active or trialing and whose period has not ended; an increment raises
\* resume_count by exactly 1 and a reset sets it to 0, so resume_count is
\* always the number of increments since the last reset.
C15_ResumeCountTracksIncrements ==
    /\ subscription.plan = "free" =>
           (can_generate_resume(subscription) <=> subscription.resume_count < 3)
    /\ ( /\ subscription.plan = "pro"
         /\ subscription.status \in {"active", "trialing"}
         /\ subscription.period # "past" ) => can_generate_resume(subscription)
    /\ subscription.resume_count = increments

\* three increments have brought a free plan to the limit
C15_Witness ==
    /\ subscription.plan = "free"
    /\ subscription.resume_count = 3
    /\ increments = 3
    /\ lastResp.op = "increment"
    /\ ~can_generate_resume(subscription)

\* C16: a create-flow poll that has created the record ends with the cache
\* entry and the native result of its handle removed, also when delete_task
\* or forget raises, and no handle has a record created from it twice.
C16_CreateAndCleanupTogether ==
    /\ (Polled /\ lastResp.flow = "create" /\ lastResp.writes > 0) =>
           /\ ~cache[lastResp.h].hit
           /\ native[lastResp.h] = Forgotten
    /\ \A h \in Handles : Cardinality(CreatedFrom(h)) <= 1

\* the status with which the ready branch of get() answers a poll of user u
\* through the view of flow fl that holds a result echoing record id rid,
\* when no call raises
ReadyStatus(fl, k, rid, u) ==
    IF fl = "create" THEN 201
    ELSE IF rid = 0 THEN 400
    ELSE IF update_resume(k, rid, u) = {} THEN 500
    ELSE IF ~OwnedBy(rid, k, u) THEN 404
    ELSE 200

\* C17: a poll that finds the task pending with a cache entry answers with
\* the status the ready branch gives for the same cached result, view and
\* user, and like the ready branch leaves cache and native result in place
\* exactly when it does not answer with success.
C17_PendingCachedLikeReady ==
    ( /\ Polled
      /\ lastResp.path = "pending_cached"
      /\ lastResp.fault = "none" ) =>
    ( /\ lastResp.status =
            ReadyStatus(lastResp.flow, EndpointKind(lastResp.h), lastResp.rid,
                        lastResp.user)
      /\ lastResp.status \in {200, 201} <=> ~cache[lastResp.h].hit )

\* the states the native store reports
NativeStates == {"PENDING", "SUCCESS", "FAILURE", "REVOKED"}

\* C18: a poll that finds the task successful in the native store and a
\* cache entry takes the ready branch, attempts the create or update from
\* the cached result and never answers pending; and get() decides in the
\* order failed, ready, pending with a cache entry, pending.
C18_ReadyWithCacheMaterializes ==
    /\ (Polled /\ lastResp.obs = "SUCCESS" /\ lastResp.hadCache) =>
           /\ lastResp.path = "ready"
           /\ lastResp.status # 202
           /\ lastResp.msg # "pending"
    /\ \A st \in NativeStates, c \in ResultValues, r \in ResultValues :
           LET path == LookupPath(st, c, r) IN
           /\ st = "FAILURE" => path = "failed"
           /\ st \in {"SUCCESS", "REVOKED"} => path \in {"ready", "nodata"}
           /\ (st = "SUCCESS" /\ c # NoResult) => path = "ready"
           /\ (st = "PENDING" /\ c # NoResult) => path = "pending_cached"
           /\ (st = "PENDING" /\ c = NoResult) => path = "pending"

\* an update applied from the cache entry of a successful task
C18_Witness ==
    /\ Polled /\ lastResp.obs = "SUCCESS" /\ lastResp.hadCache
    /\ lastResp.flow = "update" /\ lastResp.status = 200
    /\ lastResp.path = "ready"

\* C19: while the result of a successfully finished update task has not
\* been applied by a poll, the stored counter of its record is still the
\* value the task found.
C19_IncrementAfterMaterialization ==
    \A h \in Handles :
        ( /\ task[h].flow = "update"
          /\ wpc[h] = "success"
          /\ mat[h] = 0 ) =>
        records[task[h].rid].count = wread[h]

\* C20: the step in which a task fails (a lookup of the task raises or
\* the generator raises) leaves the native store reporting FAILURE, writes
\* no cache entry and changes no record or counter; from then on the task
\* stays failed (it is not run again), the handle has no cache entry and
\* no record is created or changed.
C20_WorkerFailureLeavesNothing ==
    [][ \A h \in Handles :
          /\ (wpc[h] # "failure" /\ wpc'[h] = "failure") =>
                /\ records' = records
                /\ cache' = cache
                /\ ~cache'[h].hit
                /\ ~eager => native'[h] = [state |-> "FAILURE", result |-> NoResult]
          /\ wpc[h] = "failure" =>
                /\ wpc'[h] = "failure"
                /\ records' = records
                /\ ~cache'[h].hit
                /\ task[h].flow = "update" =>
                      records'[task[h].rid].count = DefaultCount
      ]_vars

\* an update task whose lookup failed in the worker has been polled
C20_Witness ==
    /\ Polled /\ lastResp.obs = "FAILURE"
    /\ task[lastResp.h].flow = "update"
    /\ wpc[lastResp.h] = "failure"
    /\ wread[lastResp.h] = 0
    /\ records = InitRecords

\* C21: once a poll has observed the task of a handle as failed, the
\* native store has no task meta and the cache no entry for the handle.
C21_FailedHandleRetired ==
    (Polled /\ lastResp.obs = "FAILURE") =>
        /\ native[lastResp.h] = Forgotten
        /\ ~cache[lastResp.h].hit

\* C22: a poll that finds the task successful and no cache entry has
\* saved the native result in the cache when it goes on to materialize,
\* and when the create or update call then raises, the cache still holds
\* that result (unless the entry has timed out) for the next poll.
C22_SaveBeforeMaterialize ==
    [][ /\ \A p \in Pollers :
             ( /\ poll[p].pc = "idle" /\ poll'[p].pc = "mat"
               /\ poll'[p].obs = "SUCCESS" /\ ~poll'[p].hadCache ) =>
             ( /\ cache'[poll'[p].h] = JsonDumps(native[poll'[p].h].result)
               /\ poll'[p].data = native[poll'[p].h].result
               /\ JsonLoads(cache'[poll'[p].h]) = poll'[p].data )
        /\ ( /\ lastResp'.op = "poll" /\ lastResp'.fault = "write"
             /\ lastResp'.obs = "SUCCESS" /\ ~lastResp'.hadCache ) =>
           ( \/ lastResp'.h \in expired'
             \/ cache'[lastResp'.h] = JsonDumps(native'[lastResp'.h].result) )
      ]_vars

\* the create call of a poll that found no cache entry has just raised,
\* and the entry saved by that poll is there
C22_Witness ==
    /\ Polled /\ lastResp.fault = "write" /\ lastResp.status = 500
    /\ lastResp.obs = "SUCCESS" /\ ~lastResp.hadCache
    /\ lastResp.h \notin expired
    /\ cache[lastResp.h] = JsonDumps(native[lastResp.h].result)
    /\ Truthy(get_task_result(lastResp.h))

\* C23: a poll answered with anything but 200 or 201 has written nothing
\* to the record store.
C23_NonSuccessPollWritesNothing ==
    (Polled /\ lastResp.status \notin {200, 201}) =>
        /\ lastResp.writes = 0
        /\ lastResp.rec = 0

\* C24: every record created from the result of a handle is owned by the
\* user who submitted the generation request of that handle.
C24_CreatedRecordOwnedBySubmitter ==
    \A h \in Handles : \A r \in CreatedFrom(h) :
        records[r].owner = task[h].user

\* C25: the regeneration counter of a record never exceeds 3.
C25_CounterAtMostThree ==
    \A r \in RecordIds : records[r].count <= 3

\* C26: the stored counter of a record is its initial value plus the
\* number of update tasks of the record that have completed successfully.
C26_NoIncrementLost ==
    \A r \in RecordIds :
        records[r].count = InitRecords[r].count + Cardinality(Regenerations(r))

\* C27: a Stripe event whose row is stored as processed is acknowledged with
\* 200 without its handler running again, a row is stored as processed only
\* after the handler completed without error, and so the handler of every
\* event id runs to completion at most once over any sequence of deliveries.
C27_HandlerCompletesAtMostOnce ==
    /\ \A e \in Events : events[e].processed => handled[e] >= 1
    /\ \A e \in Events : handled[e] <= 1

C29_ActiveMatchesStatus ==
    subscription.is_active = (subscription.status \in {"active", "trialing"})

====
